---- MODULE Spec2Model ----
(***************************************************************************)
(* Histogram estimators of the forward Kolmogorov coefficients             *)
(* (Diffusion/diffusion_1d_paper_figures.py, ABC_Flow/                     *)
(* abc_flow_paper_figures.py) and the ensemble driver that feeds them.     *)
(*                                                                         *)
(* Floating point values are modelled by exact rationals <<n, d>> in       *)
(* lowest terms with d > 0, extended by the IEEE values the code can       *)
(* produce: NaN = <<0, 0>>, +inf = <<1, 0>>, -inf = <<-1, 0>>.            *)
(* Python sequences are 1-based TLA+ sequences: index i of the code is     *)
(* index i + 1 of the model.                                               *)
(***************************************************************************)
EXTENDS Integers, Sequences, FiniteSets, TLC

VARIABLES
  call,       \* the estimator call being made: the function and its arguments
  ret,        \* what the call returned or raised
  pc,         \* the statement Generate_Ensemble is at
  N, T, Paths, \* the arguments of Generate_Ensemble
  slack,      \* the N-1 floating point additions of dt fall short of T
  rng,        \* the global generator: numbers drawn since the last seed
  W,          \* the increment paths W[:,:,n] of Generate_Ensemble
  n,          \* the realization, -1 for the first Solve(N,T) and Data()
  Wrun,       \* the W of the running Solve
  iteration,  \* solver.iteration
  sim_time,   \* solver.sim_time
  forcing,    \* the boundary increments the solver was driven by
  reads,      \* the rows of W read by the main loop
  capture,    \* the 'snapshots' file handler is registered
  file,       \* snapshots/snapshots_s1.h5, <<>> when missing
  slots       \* the ensemble containers, one slot per realization

estVars == <<call, ret>>
runVars == <<pc, N, T, Paths, slack, rng, W, n, Wrun, iteration, sim_time,
             forcing, reads, capture, file, slots>>
vars == <<call, ret, pc, N, T, Paths, slack, rng, W, n, Wrun, iteration,
          sim_time, forcing, reads, capture, file, slots>>

(***************************************************************************)
(* Bounds of the model.                                                    *)
(***************************************************************************)
MaxVal == 1
MaxLen == 2
MaxBins == 2
MaxGrid == 2
MaxPts == 3
ZDen == 4
MaxN == 6
MaxT == 2
MaxPaths == 2

(***************************************************************************)
(* Exact arithmetic with NaN and infinities.                               *)
(***************************************************************************)
Abs(a) == IF a < 0 THEN -a ELSE a

Sign(a) == IF a < 0 THEN -1 ELSE IF a > 0 THEN 1 ELSE 0

RECURSIVE GCD(_, _)
GCD(a, b) == IF b = 0 THEN a ELSE GCD(b, a % b)

Norm(a, b) ==
  IF b = 0 THEN <<Sign(a), 0>>
  ELSE LET g == GCD(Abs(a), Abs(b))
       IN  <<(Sign(b) * a) \div g, Abs(b) \div g>>

R(a) == <<a, 1>>

NaN == <<0, 0>>

IsNaN(a) == a = NaN

IsFinite(a) == a[2] # 0

RAdd(a, b) ==
  IF a[2] = 0 /\ b[2] = 0
  THEN (IF a = b THEN a ELSE NaN)
  ELSE Norm(a[1] * b[2] + b[1] * a[2], a[2] * b[2])

RNeg(a) == <<-a[1], a[2]>>

RSub(a, b) == RAdd(a, RNeg(b))

RMul(a, b) == Norm(a[1] * b[1], a[2] * b[2])

RDiv(a, b) == Norm(a[1] * b[2], a[2] * b[1])

RLt(a, b) == a[1] * b[2] < b[1] * a[2]

RLe(a, b) == a[1] * b[2] <= b[1] * a[2]

Floor(a) == a[1] \div a[2]

RECURSIVE RSum(_)
RSum(s) == IF s = <<>> THEN R(0) ELSE RAdd(Head(s), RSum(Tail(s)))

RECURSIVE Min(_)
Min(s) == IF Len(s) = 1 THEN s[1]
          ELSE LET m == Min(Tail(s)) IN IF s[1] <= m THEN s[1] ELSE m

RECURSIVE Max(_)
Max(s) == IF Len(s) = 1 THEN s[1]
          ELSE LET m == Max(Tail(s)) IN IF s[1] >= m THEN s[1] ELSE m

RECURSIVE RMin(_)
RMin(s) == IF Len(s) = 1 THEN s[1]
           ELSE LET m == RMin(Tail(s)) IN IF RLe(s[1], m) THEN s[1] ELSE m

RECURSIVE RMax(_)
RMax(s) == IF Len(s) = 1 THEN s[1]
           ELSE LET m == RMax(Tail(s)) IN IF RLe(m, s[1]) THEN s[1] ELSE m

(***************************************************************************)
(* numpy.histogram / numpy.histogram2d as the code calls them              *)
(* (equal-width bins, density=True).                                       *)
(***************************************************************************)
\* The outer edges of one axis: a range of zero width is widened by 1/2 on
\* each side.
OuterEdges(Range) ==
  IF Range[1] = Range[2]
  THEN <<RSub(Range[1], <<1, 2>>), RAdd(Range[2], <<1, 2>>)>>
  ELSE Range

\* The range numpy takes when the caller gives none: the data's extent,
\* (0, 1) for no data.
DataRange(a) == IF a = <<>> THEN <<R(0), R(1)>> ELSE <<R(Min(a)), R(Max(a))>>

BinWidth(Range, bins) ==
  LET e == OuterEdges(Range) IN RDiv(RSub(e[2], e[1]), R(bins))

\* The midpoints 0.5*(edges[1:] + edges[:-1]) of the bins+1 equally spaced
\* edges.
Centers(Range, bins) ==
  LET e == OuterEdges(Range)
      w == RDiv(RSub(e[2], e[1]), R(bins))
  IN  [i \in 1..bins |-> RAdd(e[1], RMul(<<2 * i - 1, 2>>, w))]

\* The bin (1..bins) of a sample between the outer edges e, 0 for a sample
\* outside them; a sample on the last edge belongs to the last bin.
BinOf(x, e, bins) ==
  IF ~(RLe(e[1], R(x)) /\ RLe(R(x), e[2])) THEN 0
  ELSE IF R(x) = e[2] THEN bins
  ELSE Floor(RDiv(RMul(RSub(R(x), e[1]), R(bins)), RSub(e[2], e[1]))) + 1

\* The samples are clipped into the range before they are counted.
histogramClipped(a, Range, bins) ==
  LET e     == OuterEdges(Range)
      w     == RDiv(RSub(e[2], e[1]), R(bins))
      idx   == [k \in 1..Len(a) |->
                  IF RLt(R(a[k]), e[1]) THEN 1
                  ELSE IF RLt(e[2], R(a[k])) THEN bins
                  ELSE BinOf(a[k], e, bins)]
      cnt   == [i \in 1..bins |-> Cardinality({k \in 1..Len(a) : idx[k] = i})]
      total == R(Len(a))
  IN  [i \in 1..bins |-> RDiv(RDiv(R(cnt[i]), w), total)]

histogram(a, Range, bins) ==
  LET e     == OuterEdges(Range)
      w     == RDiv(RSub(e[2], e[1]), R(bins))
      idx   == [k \in 1..Len(a) |-> BinOf(a[k], e, bins)]
      cnt   == [i \in 1..bins |-> Cardinality({k \in 1..Len(a) : idx[k] = i})]
      total == R(Cardinality({k \in 1..Len(a) : idx[k] # 0}))
  IN  [i \in 1..bins |-> RDiv(RDiv(R(cnt[i]), w), total)]

\* A sample outside either range is left out of the joint histogram.
histogram2d(x, y, xRange, yRange, bins) ==
  LET ex    == OuterEdges(xRange)
      ey    == OuterEdges(yRange)
      area  == RMul(RDiv(RSub(ex[2], ex[1]), R(bins)),
                    RDiv(RSub(ey[2], ey[1]), R(bins)))
      ix    == [k \in 1..Len(x) |-> BinOf(x[k], ex, bins)]
      iy    == [k \in 1..Len(x) |-> BinOf(y[k], ey, bins)]
      total == R(Cardinality({k \in 1..Len(x) : ix[k] # 0 /\ iy[k] # 0}))
  IN  [i \in 1..bins |->
        [j \in 1..bins |->
          RDiv(RDiv(R(Cardinality({k \in 1..Len(x) : ix[k] = i /\ iy[k] = j})),
                    area),
               total)]]

(***************************************************************************)
(* Diffusion/diffusion_1d_paper_figures.py: the estimators.                *)
(***************************************************************************)
Raise(e) == [error |-> e]

density(Y_data, Range, N_bins) ==
  [error |-> "none",
   f |-> histogram(Y_data, Range, N_bins),
   y |-> Centers(Range, N_bins)]

\* The factor dphi is left out of the sum.
NumeratorRowNoWidth(fRow, phi, dphi) ==
  RSum([j \in 1..Len(phi) |-> RMul(phi[j], fRow[j])])

\* sum(phi * f_YPhi, axis=1) * dphi, row i
NumeratorRow(fRow, phi, dphi) ==
  RMul(RSum([j \in 1..Len(phi) |-> RMul(phi[j], fRow[j])]), dphi)

\* sum(f_YPhi, axis=1) * dphi, row i
MarginalRow(fRow, dphi) == RMul(RSum(fRow), dphi)

diffusion(dY2_data, Y_data, Range, N_bins) ==
  IF dY2_data = <<>> THEN Raise("ValueError")
  ELSE IF N_bins < 2 THEN Raise("IndexError")
  ELSE
    LET PhiRange == <<R(Min(dY2_data)), R(Max(dY2_data))>>
        f_YPhi == histogram2d(Y_data, dY2_data, Range, PhiRange, N_bins)
        phi    == Centers(PhiRange, N_bins)
        dphi   == RSub(phi[2], phi[1])
        f_Y    == [i \in 1..N_bins |-> MarginalRow(f_YPhi[i], dphi)]
        E      == [i \in 1..N_bins |->
                     RDiv(NumeratorRow(f_YPhi[i], phi, dphi), f_Y[i])]
    IN  [error |-> "none",
         D2 |-> [i \in 1..N_bins |-> RNeg(E[i])],
         f_Y |-> f_Y]

\* The Y range of the joint histogram that Expectation builds.
ExpectationRange(y) == <<RMin(y), RMax(y)>>

\* The sum is divided by the Y-marginal of the joint histogram.
ExpectationNormalised(Y, dY, y, N_bins) ==
  IF dY = <<>> THEN Raise("ValueError")
  ELSE IF N_bins < 2 THEN Raise("IndexError")
  ELSE
    LET PhiRange == <<R(Min(dY)), R(Max(dY))>>
        f_YPhi == histogram2d(Y, dY, ExpectationRange(y), PhiRange, N_bins)
        phi    == Centers(PhiRange, N_bins)
        dphi   == RSub(phi[2], phi[1])
    IN  [error |-> "none",
         E |-> [i \in 1..N_bins |->
                  RDiv(NumeratorRow(f_YPhi[i], phi, dphi),
                       MarginalRow(f_YPhi[i], dphi))]]

Expectation(Y, dY, y, N_bins) ==
  IF dY = <<>> THEN Raise("ValueError")
  ELSE IF N_bins < 2 THEN Raise("IndexError")
  ELSE
    LET PhiRange == <<R(Min(dY)), R(Max(dY))>>
        f_YPhi == histogram2d(Y, dY, ExpectationRange(y), PhiRange, N_bins)
        phi    == Centers(PhiRange, N_bins)
        dphi   == RSub(phi[2], phi[1])
    IN  [error |-> "none",
         E |-> [i \in 1..N_bins |-> NumeratorRow(f_YPhi[i], phi, dphi)]]

\* The two boundary terms are added.
driftSum(f, y, Y0, Y1, Yz0, Yz1, N_bins) ==
  LET Ez1 == Expectation(Y1, Yz1, y, N_bins)
      Ez0 == Expectation(Y0, Yz0, y, N_bins)
  IN  IF Ez1.error # "none" THEN Ez1
      ELSE IF Ez0.error # "none" THEN Ez0
      ELSE [error |-> "none",
            D1 |-> [i \in 1..Len(f) |-> RDiv(RAdd(Ez1.E[i], Ez0.E[i]), f[i])]]

drift(f, y, Y0, Y1, Yz0, Yz1, N_bins) ==
  LET Ez1 == Expectation(Y1, Yz1, y, N_bins)
      Ez0 == Expectation(Y0, Yz0, y, N_bins)
  IN  IF Ez1.error # "none" THEN Ez1
      ELSE IF Ez0.error # "none" THEN Ez0
      ELSE [error |-> "none",
            D1 |-> [i \in 1..Len(f) |-> RDiv(RSub(Ez1.E[i], Ez0.E[i]), f[i])]]

(***************************************************************************)
(* Plot_Terms: the estimated terms and the central-difference matrix.      *)
(***************************************************************************)
\* D[i,i+1] = 1 for i < N-1, D[i,i-1] = -1 for i > 0, D *= .5/(y[1]-y[0])
DerivativeMatrix(y) ==
  LET scale == RDiv(<<1, 2>>, RSub(y[2], y[1]))
  IN  [i \in 1..Len(y) |->
        [j \in 1..Len(y) |->
          RMul(scale, IF j = i + 1 /\ i < Len(y) THEN R(1)
                      ELSE IF j = i - 1 /\ i > 1 THEN R(-1)
                      ELSE R(0))]]

\* D @ v
MatVec(D, v) ==
  [i \in 1..Len(D) |-> RSum([j \in 1..Len(v) |-> RMul(D[i][j], v[j])])]

Plot_Terms(Y_data, dY2_data, Y0_Data, Y1_Data, Y0zData, Y1zData, N_bins) ==
  IF Y_data = <<>> THEN Raise("ValueError")
  ELSE
    LET Range == <<R(Min(Y_data)), R(Max(Y_data))>>
        fy    == density(Y_data, Range, N_bins)
        D2    == diffusion(dY2_data, Y_data, Range, N_bins)
        D1    == drift(fy.f, fy.y, Y0_Data, Y1_Data, Y0zData, Y1zData, N_bins)
        D     == DerivativeMatrix(fy.y)
    IN  IF D2.error # "none" THEN D2
        ELSE IF D1.error # "none" THEN D1
        ELSE [error |-> "none", Range |-> Range, f |-> fy.f, y |-> fy.y,
              D2 |-> D2.D2, D1 |-> D1.D1, D |-> D,
              dD2f |-> MatVec(D, [i \in 1..N_bins |-> RMul(D2.D2[i], fy.f[i])])]

(***************************************************************************)
(* Diffusion Data(): the snapshots resampled on a uniform grid.            *)
(***************************************************************************)
\* np.arange(0, 1, dz): 0, dz, 2 dz, ... below 1
Arange01(dz) ==
  LET cnt == IF RDiv(R(1), dz)[2] = 1 THEN Floor(RDiv(R(1), dz))
             ELSE Floor(RDiv(R(1), dz)) + 1
  IN  [k \in 1..cnt |-> RMul(R(k - 1), dz)]

\* np.interp(x, xp, fp) at one point: linear between the neighbours,
\* the end value outside [xp[0], xp[-1]]
Interp(x, xp, fp) ==
  IF RLe(x, xp[1]) THEN R(fp[1])
  ELSE IF RLe(xp[Len(xp)], x) THEN R(fp[Len(xp)])
  ELSE LET k == CHOOSE k \in 1..(Len(xp) - 1) : RLe(xp[k], x) /\ RLt(x, xp[k + 1])
           t == RDiv(RSub(x, xp[k]), RSub(xp[k + 1], xp[k]))
       IN  RAdd(R(fp[k]), RMul(t, R(fp[k + 1] - fp[k])))

Data(z_cheb, Y_cheb, Yz_cheb) ==
  LET dz_cheb == RSub(z_cheb[2], z_cheb[1])
      z_data  == Arange01(dz_cheb)
      Y_data  == [i \in 1..Len(Y_cheb) |->
                    [k \in 1..Len(z_data) |-> Interp(z_data[k], z_cheb, Y_cheb[i])]]
      Yz_data == [i \in 1..Len(Yz_cheb) |->
                    [k \in 1..Len(z_data) |-> Interp(z_data[k], z_cheb, Yz_cheb[i])]]
  IN  [error |-> "none", z_data |-> z_data, Y_data |-> Y_data,
       Yz_data |-> Yz_data,
       dY2_data |-> [i \in 1..Len(Yz_data) |->
                      [k \in 1..Len(z_data) |-> RMul(Yz_data[i][k], Yz_data[i][k])]]]

(***************************************************************************)
(* ABC_Flow/abc_flow_paper_figures.py Data(): the time derivative of the   *)
(* density and the conditional expectation.  S_data[-k] of the code is     *)
(* Snap(S_data, k).                                                        *)
(***************************************************************************)
Snap(S_data, k) == S_data[Len(S_data) + 1 - k]

\* (-1/12) f_np2 + (2/3) f_np1 - (2/3) f_nm1 + (1/12) f_nm2, over dt
Stencil(f_np2, f_np1, f_nm1, f_nm2, dt) ==
  [i \in 1..Len(f_np2) |->
     RDiv(RAdd(RAdd(RMul(<<-1, 12>>, f_np2[i]), RMul(<<2, 3>>, f_np1[i])),
               RAdd(RMul(<<-2, 3>>, f_nm1[i]), RMul(<<1, 12>>, f_nm2[i]))),
          dt)]

ABC_Data(S_data, dS2_data, times, N_bins) ==
  IF Len(S_data) < 5 \/ N_bins < 2 THEN Raise("IndexError")
  ELSE
    LET f_np2 == histogram(Snap(S_data, 1), DataRange(Snap(S_data, 1)), N_bins)
        f_np1 == histogram(Snap(S_data, 2), DataRange(Snap(S_data, 2)), N_bins)
        f_nm1 == histogram(Snap(S_data, 4), DataRange(Snap(S_data, 4)), N_bins)
        f_nm2 == histogram(Snap(S_data, 5), DataRange(Snap(S_data, 5)), N_bins)
        dt    == R(times[Len(times)] - times[Len(times) - 1])
        dfdt  == Stencil(f_np2, f_np1, f_nm1, f_nm2, dt)
        SRange   == DataRange(Snap(S_data, 3))
        PhiRange == DataRange(Snap(dS2_data, 3))
        f_SPhi == histogram2d(Snap(S_data, 3), Snap(dS2_data, 3),
                              SRange, PhiRange, N_bins)
        phi    == Centers(PhiRange, N_bins)
        dphi   == RSub(phi[2], phi[1])
        f_S    == [i \in 1..N_bins |-> MarginalRow(f_SPhi[i], dphi)]
        E      == [i \in 1..N_bins |->
                     RDiv(NumeratorRow(f_SPhi[i], phi, dphi), f_S[i])]
    IN  [error |-> "none", s |-> Centers(SRange, N_bins), f_S |-> f_S, E |-> E,
         dfdt |-> dfdt]

(***************************************************************************)
(* Arguments of the calls.                                                 *)
(***************************************************************************)
Vals == 0..MaxVal

Grads == {-1, 1}

Samples(S, L) == UNION {[1..k -> S] : k \in 0..L}

\* The ranges (lo, hi), lo <= hi, with ends up to one past the sample values.
Ranges ==
  {<<R(r[1]), R(r[2])>> :
     r \in {q \in (0..MaxVal + 1) \X (0..MaxVal + 1) : q[1] <= q[2]}}

BinCounts == 1..MaxBins

Column(p, c) == [k \in 1..Len(p) |-> p[k][c]]

Squares(a) == [k \in 1..Len(a) |-> a[k] * a[k]]

Mirror(p) == [k \in 1..Len(p) |-> <<MaxVal - p[k][1], -p[k][2]>>]

Shift(a) == [k \in 1..Len(a) |-> a[k] + 1]

Pending == [error |-> "pending"]

Idle == [fn |-> "none"]

(***************************************************************************)
(* The calls: the arguments are drawn when the call is made, the action    *)
(* runs the function body and stores what it returns or raises.            *)
(***************************************************************************)
Args_density ==
  \E Y_data \in Samples(Vals, MaxLen), Range \in Ranges, N_bins \in BinCounts :
    call = [fn |-> "density", Y_data |-> Y_data, Range |-> Range,
            N_bins |-> N_bins]

Call_density ==
  /\ call.fn = "density" /\ ret = Pending
  /\ ret' = density(call.Y_data, call.Range, call.N_bins)
  /\ UNCHANGED <<call, runVars>>

\* The auxiliary sample is the state sample itself, its square, or the
\* state sample mirrored in the value range.
Args_diffusion ==
  \E Y_data \in Samples(Vals, MaxLen), Range \in Ranges, N_bins \in BinCounts :
    \E dY2_data \in {Y_data, Squares(Y_data),
                     [k \in 1..Len(Y_data) |-> MaxVal - Y_data[k]]} :
      call = [fn |-> "diffusion", Y_data |-> Y_data, dY2_data |-> dY2_data,
              Range |-> Range, N_bins |-> N_bins]

Call_diffusion ==
  /\ call.fn = "diffusion" /\ ret = Pending
  /\ ret' = diffusion(call.dY2_data, call.Y_data, call.Range, call.N_bins)
  /\ UNCHANGED <<call, runVars>>

\* y is the bin centers density() returns for Range and N_bins.
Args_Expectation ==
  \E p \in Samples(Vals \X Grads, MaxLen), Range \in Ranges, N_bins \in BinCounts :
    call = [fn |-> "Expectation", Y |-> Column(p, 1), dY |-> Column(p, 2),
            y |-> Centers(Range, N_bins), N_bins |-> N_bins]

Call_Expectation ==
  /\ call.fn = "Expectation" /\ ret = Pending
  /\ ret' = Expectation(call.Y, call.dY, call.y, call.N_bins)
  /\ UNCHANGED <<call, runVars>>

\* The boundary z=1 holds the data of the boundary z=0 or its mirror image;
\* f and y are what density() returns for the pooled boundary values.
Args_drift ==
  \E p0 \in Samples(Vals \X Grads, MaxLen), Range \in Ranges, N_bins \in BinCounts :
    \E p1 \in {p0, Mirror(p0)} :
      call = [fn |-> "drift",
              f |-> density(Column(p0, 1) \o Column(p1, 1), Range, N_bins).f,
              y |-> Centers(Range, N_bins),
              Y0 |-> Column(p0, 1), Y1 |-> Column(p1, 1),
              Yz0 |-> Column(p0, 2), Yz1 |-> Column(p1, 2), N_bins |-> N_bins]

Call_drift ==
  /\ call.fn = "drift" /\ ret = Pending
  /\ ret' = drift(call.f, call.y, call.Y0, call.Y1, call.Yz0, call.Yz1, call.N_bins)
  /\ UNCHANGED <<call, runVars>>

\* The ensemble sampled at the two boundaries: Y_data pools the boundary
\* values and dY2_data the squared boundary gradients.  The bin counts go
\* one further, for a matrix of three rows.
Args_Plot_Terms ==
  \E p0 \in Samples(Vals \X Grads, MaxLen), N_bins \in 1..(MaxBins + 1) :
    \E p1 \in {p0, Mirror(p0)} :
      call = [fn |-> "Plot_Terms",
              Y_data |-> Column(p0, 1) \o Column(p1, 1),
              dY2_data |-> Squares(Column(p0, 2) \o Column(p1, 2)),
              Y0_Data |-> Column(p0, 1), Y1_Data |-> Column(p1, 1),
              Y0zData |-> Column(p0, 2), Y1zData |-> Column(p1, 2),
              N_bins |-> N_bins]

Call_Plot_Terms ==
  /\ call.fn = "Plot_Terms" /\ ret = Pending
  /\ ret' = Plot_Terms(call.Y_data, call.dY2_data, call.Y0_Data, call.Y1_Data,
                       call.Y0zData, call.Y1zData, call.N_bins)
  /\ UNCHANGED <<call, runVars>>

\* The snapshot file of the ABC flow: five snapshots of MaxGrid or fewer
\* values; snapshots n+2, n+1, n-1, n-2 are the snapshot n or the snapshot n
\* shifted by one; the squared gradient at n is the scalar itself or its
\* mirror image.
Fields == UNION {[1..g -> Vals] : g \in 1..MaxGrid}

Args_ABC_Data ==
  \E S \in Fields, b \in [1..4 -> BOOLEAN], N_bins \in BinCounts :
    \E dS2 \in {S, [k \in 1..Len(S) |-> MaxVal - S[k]]} :
      call = [fn |-> "ABC_Data",
              S_data |-> <<IF b[1] THEN Shift(S) ELSE S,
                           IF b[2] THEN Shift(S) ELSE S,
                           S,
                           IF b[3] THEN Shift(S) ELSE S,
                           IF b[4] THEN Shift(S) ELSE S>>,
              dS2_data |-> <<S, S, dS2, S, S>>,
              times |-> <<1, 2, 3, 4, 5>>,
              N_bins |-> N_bins]

Call_ABC_Data ==
  /\ call.fn = "ABC_Data" /\ ret = Pending
  /\ ret' = ABC_Data(call.S_data, call.dS2_data, call.times, call.N_bins)
  /\ UNCHANGED <<call, runVars>>

\* The snapshot file of the diffusion run: one captured time, the native
\* grid a strictly increasing sequence of multiples of 1/ZDen in [0, 1].
Grids ==
  {z \in UNION {[1..g -> 0..ZDen] : g \in 2..MaxPts} :
     \A k \in 1..(Len(z) - 1) : z[k] < z[k + 1]}

Args_Data ==
  \E z \in Grids :
    \E Y_cheb \in [1..Len(z) -> Vals], Yz_cheb \in [1..Len(z) -> Grads] :
      call = [fn |-> "Data", z_cheb |-> [k \in 1..Len(z) |-> Norm(z[k], ZDen)],
              Y_cheb |-> <<Y_cheb>>, Yz_cheb |-> <<Yz_cheb>>]

Call_Data ==
  /\ call.fn = "Data" /\ ret = Pending
  /\ ret' = Data(call.z_cheb, call.Y_cheb, call.Yz_cheb)
  /\ UNCHANGED <<call, runVars>>

RunIdle ==
  /\ pc = "idle" /\ N = 0 /\ T = 0 /\ Paths = 0 /\ slack = FALSE /\ rng = 0
  /\ W = <<>> /\ n = 0 /\ Wrun = <<>> /\ iteration = 0 /\ sim_time = R(0)
  /\ forcing = <<>> /\ reads = <<>> /\ capture = FALSE
  /\ file = <<>> /\ slots = <<>>

InitEst ==
  /\ \/ Args_density
     \/ Args_diffusion
     \/ Args_Expectation
     \/ Args_drift
     \/ Args_Plot_Terms
     \/ Args_ABC_Data
  /\ ret = Pending
  /\ RunIdle

NextEst ==
  \/ Call_density
  \/ Call_diffusion
  \/ Call_Expectation
  \/ Call_drift
  \/ Call_Plot_Terms
  \/ Call_ABC_Data

SpecEst == InitEst /\ [][NextEst]_vars

InitData == Args_Data /\ ret = Pending /\ RunIdle

NextData == Call_Data

SpecData == InitData /\ [][NextData]_vars

(***************************************************************************)
(* Generate_Ensemble and the main loop of Solve.                           *)
(***************************************************************************)
\* The rows (W[n,0], W[n,1]) the generator can draw.
Rows == {<<-1, 1>>, <<1, -1>>}

\* The increment paths (N rows) the generator can draw: the rows alternate
\* between two drawn rows.
IncrementPaths ==
  {[k \in 1..N |-> IF k % 2 = 1 THEN a ELSE b] : a \in Rows, b \in Rows}

\* T_vec, dt = np.linspace(0, T, N, retstep=True)
dt == Norm(T, N - 1)

\* solver.proceed: the simulated time is below stop_sim_time = T
proceed == RLt(sim_time, R(T)) \/ (slack /\ sim_time = R(T))

NoFile == <<>>

\* Solve up to the main loop: the generator is seeded, W is drawn when
\* the caller gave none, the solver starts at iteration 0 and time 0.
Solve_begin ==
  /\ pc = "Solve"
  /\ IF n = -1
     THEN Wrun' \in IncrementPaths /\ rng' = 2 * N
     ELSE Wrun' = W[n + 1] /\ rng' = 0
  /\ iteration' = 0 /\ sim_time' = R(0)
  /\ forcing' = <<>> /\ reads' = <<>> /\ capture' = FALSE
  /\ pc' = "loop"
  /\ UNCHANGED <<call, ret, N, T, Paths, slack, W, n, file, slots>>

\* One pass of the main loop: row solver.iteration of W sets the boundary
\* values, the solver steps by dt and writes a snapshot when the handler is
\* registered; the handler is registered after the pass int(T/dt) - 5.
Solve_pass ==
  /\ pc = "loop" /\ proceed
  /\ IF iteration + 1 > Len(Wrun)
     THEN /\ pc' = "IndexError"
          /\ UNCHANGED <<iteration, sim_time, forcing, reads, capture, file>>
     ELSE /\ reads' = Append(reads, iteration)
          /\ forcing' = Append(forcing, Wrun[iteration + 1])
          /\ iteration' = iteration + 1
          /\ sim_time' = RAdd(sim_time, dt)
          /\ file' = IF capture
                     THEN [Y |-> forcing', times |-> file.times + 1]
                     ELSE IF iteration = (N - 1) - 5
                     THEN [Y |-> <<>>, times |-> 0]
                     ELSE file
          /\ capture' = (capture \/ iteration = (N - 1) - 5)
          /\ pc' = "loop"
  /\ UNCHANGED <<call, ret, N, T, Paths, slack, rng, W, n, Wrun, slots>>

Solve_return ==
  /\ pc = "loop" /\ ~proceed
  /\ pc' = "Data"
  /\ UNCHANGED <<call, ret, N, T, Paths, slack, rng, W, n, Wrun, iteration,
                 sim_time, forcing, reads, capture, file, slots>>

\* Data() after the first Solve(N,T), then the containers are allocated
\* and the increment paths of all realizations drawn.
Generate_Ensemble_setup ==
  /\ pc = "Data" /\ n = -1
  /\ IF file = NoFile
     THEN pc' = "FileNotFoundError" /\ UNCHANGED <<rng, W, n, slots>>
     ELSE /\ slots' = [k \in 1..Paths |-> <<>>]
          /\ W' \in [1..Paths -> IncrementPaths]
          /\ rng' = rng + 2 * N * Paths
          /\ n' = 0
          /\ pc' = "Solve"
  /\ UNCHANGED <<call, ret, N, T, Paths, slack, Wrun, iteration, sim_time,
                 forcing, reads, capture, file>>

\* Data() after the Solve of realization n: the trajectory read from the
\* snapshot file is stored in slot n.
Generate_Ensemble_store ==
  /\ pc = "Data" /\ n >= 0
  /\ IF file = NoFile
     THEN pc' = "FileNotFoundError" /\ UNCHANGED <<n, slots>>
     ELSE /\ slots' = [slots EXCEPT ![n + 1] = file.Y]
          /\ n' = n + 1
          /\ pc' = IF n + 1 < Paths THEN "Solve" ELSE "done"
  /\ UNCHANGED <<call, ret, N, T, Paths, slack, rng, W, Wrun, iteration,
                 sim_time, forcing, reads, capture, file>>

InitRun ==
  /\ call = Idle /\ ret = Pending
  /\ pc = "Solve"
  /\ N \in 2..MaxN /\ T \in 1..MaxT /\ Paths \in 1..MaxPaths
  /\ slack \in BOOLEAN
  /\ rng = 0 /\ W = <<>> /\ n = -1 /\ Wrun = <<>>
  /\ iteration = 0 /\ sim_time = R(0)
  /\ forcing = <<>> /\ reads = <<>> /\ capture = FALSE
  /\ file = NoFile /\ slots = <<>>

NextRun ==
  \/ Solve_begin
  \/ Solve_pass
  \/ Solve_return
  \/ Generate_Ensemble_setup
  \/ Generate_Ensemble_store

SpecRun == InitRun /\ [][NextRun]_vars

(***************************************************************************)
(* Properties of the estimators.                                           *)
(***************************************************************************)
Returned == ret # Pending

Positive(a) == IsFinite(a) /\ a[1] > 0

\* The samples of a between the outer edges of Range.
Inside(a, Range) ==
  {k \in 1..Len(a) : RLe(OuterEdges(Range)[1], R(a[k]))
                     /\ RLe(R(a[k]), OuterEdges(Range)[2])}

\* The samples of a in the interval of bin i: [edge i, edge i+1), closed on
\* the right for the last bin.
InBin(a, Range, bins, i) ==
  LET e  == OuterEdges(Range)
      w  == BinWidth(Range, bins)
      lo == RAdd(e[1], RMul(R(i - 1), w))
      hi == RAdd(e[1], RMul(R(i), w))
  IN  {k \in 1..Len(a) :
         /\ RLe(lo, R(a[k]))
         /\ IF i = bins THEN RLe(R(a[k]), hi) ELSE RLt(R(a[k]), hi)}

\* C1: in drift(f, y, ...), the Y bins of the boundary joint histograms
\* built by Expectation() have the bin centers y of f, for every Range and
\* every N_bins >= 2 that density() was given.
C1_SameBinCenters ==
  (call.fn = "drift" /\ Returned /\ ret.error = "none")
    => Centers(ExpectationRange(call.y), call.N_bins) = call.y

\* C2: every row of the central-difference matrix D of Plot_Terms sums to
\* zero, the first and the last row included, for every grid of three or
\* more bin centers.
C2_RowSumsZero ==
  (call.fn = "Plot_Terms" /\ Returned /\ ret.error = "none" /\ call.N_bins >= 3)
    => \A i \in 1..Len(ret.D) : RSum(ret.D[i]) = R(0)

\* C3 as stated: with the same data at both boundaries drift() returns zero
\* at every bin center of f, the bins of zero density included.
C3_Original ==
  (call.fn = "drift" /\ Returned /\ ret.error = "none"
   /\ call.Y1 = call.Y0 /\ call.Yz1 = call.Yz0)
    => \A i \in 1..Len(call.f) : ret.D1[i] = R(0)

\* C3 as amended: with the same data at both boundaries, a boundary sample
\* and two or more bins, drift() returns zero at every bin center where f is
\* positive, provided a boundary sample lies in [min(y), max(y)], the Y
\* range of the boundary histograms; everywhere else it returns NaN.
C3_ZeroWherePositive ==
  (call.fn = "drift" /\ Returned /\ call.Y1 = call.Y0 /\ call.Yz1 = call.Yz0)
    => IF call.Y0 = <<>> THEN ret.error = "ValueError"
       ELSE IF call.N_bins < 2 THEN ret.error = "IndexError"
       ELSE /\ ret.error = "none"
            /\ \A i \in 1..Len(call.f) :
                 ret.D1[i] =
                   IF Positive(call.f[i])
                      /\ Inside(call.Y0, <<RMin(call.y), RMax(call.y)>>) # {}
                   THEN R(0) ELSE NaN

C3_Witness ==
  /\ call.fn = "drift" /\ Returned /\ ret.error = "none"
  /\ call.Y1 = call.Y0 /\ call.Yz1 = call.Yz0
  /\ \E i \in 1..Len(call.f) : ret.D1[i] = R(0)
  /\ \E i \in 1..Len(call.f) : call.f[i] = R(0) /\ ret.D1[i] = NaN

\* C4 as stated: with Phi = Y sample by sample, the conditional expectation
\* of diffusion() and of the ABC-flow Data() is the Y bin center at every Y
\* bin of positive marginal, for any Range and bin count.
C4_Original ==
  /\ (call.fn = "diffusion" /\ Returned /\ ret.error = "none"
      /\ call.dY2_data = call.Y_data)
       => \A i \in 1..call.N_bins :
            Positive(ret.f_Y[i])
              => RNeg(ret.D2[i]) = Centers(call.Range, call.N_bins)[i]
  /\ (call.fn = "ABC_Data" /\ Returned /\ ret.error = "none"
      /\ Snap(call.dS2_data, 3) = Snap(call.S_data, 3))
       => \A i \in 1..call.N_bins : Positive(ret.f_S[i]) => ret.E[i] = ret.s[i]

\* C4 as amended: with Phi = Y sample by sample, a sample and two or more
\* bins, the conditional expectation is the Y bin center at every Y bin of
\* positive marginal when the Y range is the extent (min, max) of the
\* sample, as it is in the ABC-flow Data(), which gives no range, and in
\* diffusion() when Range is that extent.
C4_IdentityOverDataRange ==
  /\ (call.fn = "diffusion" /\ Returned /\ call.dY2_data = call.Y_data
      /\ call.Y_data # <<>> /\ call.N_bins >= 2
      /\ call.Range = <<R(Min(call.Y_data)), R(Max(call.Y_data))>>)
       => /\ ret.error = "none"
          /\ \A i \in 1..call.N_bins :
               Positive(ret.f_Y[i])
                 => RNeg(ret.D2[i]) = Centers(call.Range, call.N_bins)[i]
  /\ (call.fn = "ABC_Data" /\ Returned /\ call.N_bins >= 2
      /\ Snap(call.dS2_data, 3) = Snap(call.S_data, 3))
       => /\ ret.error = "none"
          /\ \A i \in 1..call.N_bins : Positive(ret.f_S[i]) => ret.E[i] = ret.s[i]

C4_Witness ==
  /\ call.fn = "diffusion" /\ Returned /\ ret.error = "none"
  /\ call.dY2_data = call.Y_data
  /\ Min(call.Y_data) < Max(call.Y_data)
  /\ call.Range = <<R(Min(call.Y_data)), R(Max(call.Y_data))>>
  /\ \E i, j \in 1..call.N_bins :
       i # j /\ Positive(ret.f_Y[i]) /\ Positive(ret.f_Y[j])

\* C5 as stated: density() returns N_bins non-negative values whose sum
\* times the bin width is 1, for every sample set, the empty one and the
\* ones outside Range included.
C5_Original ==
  (call.fn = "density" /\ Returned)
    => /\ Len(ret.f) = call.N_bins
       /\ \A i \in 1..call.N_bins : IsFinite(ret.f[i]) /\ ret.f[i][1] >= 0
       /\ RMul(RSum(ret.f), BinWidth(call.Range, call.N_bins)) = R(1)

\* C5 as amended: when a sample lies inside Range, density() returns N_bins
\* non-negative values whose sum times the bin width is 1, and the value of
\* a bin is the share of the samples inside Range that lie in the bin, over
\* the bin width (a sample outside Range is left out, not moved to an end
\* bin); when no sample lies inside Range every value is NaN.
C5_NormalisedOverInside ==
  (call.fn = "density" /\ Returned)
    => LET w  == BinWidth(call.Range, call.N_bins)
           in == Inside(call.Y_data, call.Range)
       IN  /\ Len(ret.f) = call.N_bins
           /\ IF in = {}
              THEN \A i \in 1..call.N_bins : ret.f[i] = NaN
              ELSE /\ \A i \in 1..call.N_bins :
                        /\ IsFinite(ret.f[i]) /\ ret.f[i][1] >= 0
                        /\ RMul(RMul(ret.f[i], w), R(Cardinality(in)))
                             = R(Cardinality(InBin(call.Y_data, call.Range,
                                                   call.N_bins, i)))
                   /\ RMul(RSum(ret.f), w) = R(1)

C5_Witness ==
  /\ call.fn = "density" /\ Returned
  /\ Inside(call.Y_data, call.Range) # {}
  /\ Inside(call.Y_data, call.Range) # 1..Len(call.Y_data)
  /\ call.N_bins >= 2

\* C7: a computation that combines histograms bin by bin (the time stencil
\* of the ABC-flow Data(), the division by f in drift()) reports an error
\* and returns nothing when the histograms were built over different ranges.
C7_MisalignedIsFatal ==
  /\ (call.fn = "ABC_Data" /\ Returned
      /\ \E j, k \in {1, 2, 4, 5} :
           DataRange(Snap(call.S_data, j)) # DataRange(Snap(call.S_data, k)))
       => ret.error # "none"
  /\ (call.fn = "drift" /\ Returned
      /\ Centers(ExpectationRange(call.y), call.N_bins) # call.y)
       => ret.error # "none"

\* The center of the phi bin that holds the constant gradient c: the phi
\* range (c, c) is widened to (c - 1/2, c + 1/2).
PhiStar(c, bins) ==
  IF bins % 2 = 1 THEN R(c) ELSE RAdd(R(c), <<1, 2 * bins>>)

\* C10 as stated: Expectation() returns the conditional expectation; for a
\* gradient sample that is the constant c it returns c at every Y bin that
\* holds samples.
C10_Original ==
  (call.fn = "Expectation" /\ Returned /\ ret.error = "none"
   /\ \A k \in 1..Len(call.dY) : call.dY[k] = call.dY[1])
    => \A i \in 1..call.N_bins :
         InBin(call.Y, <<RMin(call.y), RMax(call.y)>>, call.N_bins, i) # {}
           => ret.E[i] = R(call.dY[1])

\* C10 as amended: Expectation() returns, for each Y bin, the sum over phi
\* of phi * f(y,phi) * dphi and does not divide it by the Y-marginal: with
\* two or more bins and a sample it is the sum of the phi bin centers of the
\* samples in the Y bin, over the number of samples in [min(y), max(y)] and
\* the Y bin width, NaN when no sample lies in [min(y), max(y)]; for a
\* gradient sample that is the constant c it is the Y-marginal of the joint
\* histogram times the center of the phi bin of c, which is c for an odd
\* N_bins and c + 1/(2 N_bins) for an even one.
C10_NumeratorOnly ==
  (call.fn = "Expectation" /\ Returned)
    => IF call.dY = <<>> THEN ret.error = "ValueError"
       ELSE IF call.N_bins < 2 THEN ret.error = "IndexError"
       ELSE
         LET YRange   == <<RMin(call.y), RMax(call.y)>>
             PhiRange == <<R(Min(call.dY)), R(Max(call.dY))>>
             wy       == BinWidth(YRange, call.N_bins)
             in       == Inside(call.Y, YRange)
             phiOf(k) == Centers(PhiRange, call.N_bins)
                           [BinOf(call.dY[k], OuterEdges(PhiRange), call.N_bins)]
             sumPhi(i) ==
               RSum([k \in 1..Len(call.Y) |->
                       IF k \in InBin(call.Y, YRange, call.N_bins, i)
                       THEN phiOf(k) ELSE R(0)])
         IN  /\ ret.error = "none"
             /\ \A i \in 1..call.N_bins :
                  ret.E[i] = IF in = {} THEN NaN
                             ELSE RDiv(sumPhi(i), RMul(R(Cardinality(in)), wy))
             /\ (\A k \in 1..Len(call.dY) : call.dY[k] = call.dY[1])
                  => \A i \in 1..call.N_bins :
                       ret.E[i] = RMul(PhiStar(call.dY[1], call.N_bins),
                                       histogram(call.Y, YRange, call.N_bins)[i])

C10_Witness ==
  /\ call.fn = "Expectation" /\ Returned /\ ret.error = "none"
  /\ Len(call.dY) >= 2
  /\ \A k \in 1..Len(call.dY) : call.dY[k] = call.dY[1]
  /\ \E i \in 1..call.N_bins : Positive(ret.E[i]) /\ ret.E[i] # R(call.dY[1])

(***************************************************************************)
(* Properties of the resampler.                                            *)
(***************************************************************************)
\* The smallest spacing between adjacent points of a grid.
MinSpacing(z) == RMin([k \in 1..(Len(z) - 1) |-> RSub(z[k + 1], z[k])])

\* C6: the spacing of the uniform grid of Data() is the smallest spacing
\* between adjacent points of the native grid, for every strictly
\* increasing native grid.
C6_SmallestSpacing ==
  (call.fn = "Data" /\ Returned /\ Len(ret.z_data) >= 2)
    => RSub(ret.z_data[2], ret.z_data[1]) = MinSpacing(call.z_cheb)

(***************************************************************************)
(* Properties of the ensemble run.                                         *)
(***************************************************************************)
\* C8: realizations share no mutable state: the run of a realization
\* writes neither the snapshot storage nor the generator state that an
\* earlier realization wrote.
C8_NoSharedState ==
  [][(n >= 1 /\ pc \in {"Solve", "loop"}) => (file' = file /\ rng' = rng)]_vars

\* C9: the main loop of Solve(N, T, ...) makes exactly N passes, and pass k
\* (k = 0..N-1) reads row k of W.
C9_NPasses ==
  pc = "Data" => reads = [k \in 1..N |-> k - 1]

====
